---- MODULE Spec2Model ----
(***************************************************************************)
(* The quiz page of Quiz19 as a state machine: the page component          *)
(* (QuizPage), its socket hooks (useSocket, useQuizSocket), the countdown  *)
(* (QuizTimer) and the integrity monitor (SecurityWrapper).                *)
(*                                                                         *)
(* One action is one task of the browser's event loop: an event handler,   *)
(* a socket callback or an interval callback, together with the re-render  *)
(* it causes and the effects (cleanups, then bodies) React runs for that   *)
(* render, repeated until no state update is pending.  A handler is        *)
(* written as an operator from a state record to a state record so that    *)
(* the handler, the render and the effects compose in the order in which   *)
(* the code runs them.                                                     *)
(***************************************************************************)
EXTENDS Integers, Sequences, FiniteSets, TLC

VARIABLES
  token,                \* useAuth: the credential, or NoToken
  sessionToken,         \* QuizPage: useParams().sessionToken, or Undefined
  page,                 \* QuizPage: "unmounted", "loading", "error", "ready"
  socket,               \* useSocket: the socket object held by socketRef.current
  openSockets,          \* sockets created by io() and not disconnected since
  isConnected,          \* useSocket: state isConnected
  error,                \* useSocket: state error (NoError or a message)
  sendBuffer,           \* the socket's buffer of packets emitted while not connected
  emitted,              \* packets given to the connected socket during the last step
  quizState,            \* useQuizSocket: state quizState
  activeUsers,          \* useQuizSocket: state activeUsers
  handlers,             \* how many times the seven quiz handlers are registered on the socket
  joinLive,             \* useQuizSocket: the join effect has run and its cleanup is pending
  joinClosureJoined,    \* quizState.isJoined as captured by the join effect's closure
  syncInterval,         \* useQuizSocket: the 30 s request_time_sync interval is set
  questions,            \* QuizPage: state questions (the ids, in order)
  currentQuestionIndex, \* QuizPage: state currentQuestionIndex (the visible question)
  answers,              \* QuizPage: state answers (question id -> option)
  isSubmitting,         \* QuizPage: state isSubmitting
  securityEnabled,      \* QuizPage: state securityEnabled
  warningCount,         \* QuizPage: state warningCount
  navPending,           \* navigate() was called and the route change is not yet rendered
  timeRemaining,        \* QuizTimer: state timeRemaining
  isWarning,            \* QuizTimer: state isWarning
  isCritical,           \* QuizTimer: state isCritical
  countdown,            \* QuizTimer: the 1 s countdown interval is set
  timerSync,            \* QuizTimer: the 120 s onTimeSync interval is set
  syncElapsed,          \* time units since that interval was set or last fired
  timeUpCalls,          \* how many times onTimeUp was invoked since the page mounted
  listeners,            \* SecurityWrapper: event name -> number of attached listeners
  styleEl,              \* SecurityWrapper: the injected <style> is in document.head
  blurCount,            \* SecurityWrapper: the blur effect's local blurCount
  prevented,            \* the last gesture's default action was cancelled
  timeText,             \* QuizTimer: the text of the timer display
  user,                 \* AuthProvider: the user, or NoUser
  authLoading,          \* AuthProvider: loading
  authPending,          \* /auth/me requests of loadUser in flight
  now,                  \* Date.now(), in milliseconds since the start
  questionStartTime,    \* QuizPage: when the visible question was shown
  lastEvent             \* the event handled by the last step

vars == <<token, sessionToken, page, socket, openSockets, isConnected, error,
          sendBuffer, emitted, quizState, activeUsers, handlers, joinLive,
          joinClosureJoined, syncInterval, questions, currentQuestionIndex,
          answers, isSubmitting, securityEnabled, warningCount, navPending,
          timeRemaining, isWarning, isCritical, countdown, timerSync,
          syncElapsed,
          timeUpCalls, listeners, styleEl, blurCount, prevented, timeText,
          user, authLoading, authPending, now, questionStartTime,
          lastEvent>>

(***************************************************************************)
(* Bounds of the model.                                                    *)
(***************************************************************************)
\* Ticks allowed since the countdown was last seeded.
MaxDrift == 1
\* Largest number of questions a loaded quiz has.
MaxQuestions == 2
\* Blur events counted by one run of the blur effect.
MaxBlur == 4
\* Largest activeUsers.
MaxUsers == 1
\* Time units the clock runs for.
MaxElapsed == 3
\* /auth/me requests in flight at once.
MaxPending == 2

(***************************************************************************)
(* Values.                                                                 *)
(***************************************************************************)
\* JavaScript null for quizState.timeRemaining (the times are >= 0).
Null == -1
NoUser == "null"
Users == {"u1"}
NoToken == "none"
Undefined == "undefined"
NoError == "null"

\* Band boundaries of the countdown.
WarningLimit == 60
CriticalLimit == 30
\* maxBlurCount of the blur effect.
MaxBlurCount == 3
\* Milliseconds in a time unit: the divisor of timeTaken.
MsPerUnit == 1000
\* Period of QuizTimer's resync interval, in time units (120000 ms).
SyncPeriod == 120

\* time_remaining values the server sends: both sides of every band boundary.
TimeValues == {0, 1, CriticalLimit + 1, CriticalLimit + 2,
               WarningLimit + 1, WarningLimit + 2}
Tokens == {"tok"}
SessionTokens == {"s1"}
Options == {"a", "b", "c", "d"}
QuestionIds == 1..MaxQuestions
\* The question lists a quiz can have: ids 1..n in order.
QuestionLists == {[i \in 1..n |-> i] : n \in 0..MaxQuestions}
ErrorMessages == {"err"}

DocEvents == {"contextmenu", "selectstart", "dragstart", "keydown", "keyup"}
WinEvents == {"blur", "focus"}
NoListeners == [e \in DocEvents \cup WinEvents |-> 0]

InitialQuizState ==
  [timeRemaining |-> Null, currentQuestionIndex |-> 0, totalQuestions |-> 0,
   isJoined |-> FALSE]

Max(a, b) == IF a >= b THEN a ELSE b

(***************************************************************************)
(* The state as one record, and its assignment to the next state.          *)
(***************************************************************************)
(***************************************************************************)
(* QuizTimer: formatTime.  A string is a sequence of one-character         *)
(* strings.                                                                *)
(***************************************************************************)
DigitChars == <<"0", "1", "2", "3", "4", "5", "6", "7", "8", "9">>

\* Number.prototype.toString of a non-negative integer.
RECURSIVE NumberToString(_)
NumberToString(n) ==
  IF n < 10 THEN <<DigitChars[n + 1]>>
  ELSE Append(NumberToString(n \div 10), DigitChars[(n % 10) + 1])

\* A padStart that pads nothing.
PadStartNone(str, targetLength, padString) == str

\* String.prototype.padStart with a one-character padString.
RECURSIVE PadStart(_, _, _)
PadStart(str, targetLength, padString) ==
  IF Len(str) >= targetLength THEN str
  ELSE PadStart(<<padString>> \o str, targetLength, padString)

FormatTime(seconds) ==
  LET hours == seconds \div 3600
      minutes == (seconds % 3600) \div 60
      secs == seconds % 60
  IN IF hours > 0
     THEN NumberToString(hours) \o <<":">>
            \o PadStart(NumberToString(minutes), 2, "0") \o <<":">>
            \o PadStart(NumberToString(secs), 2, "0")
     ELSE NumberToString(minutes) \o <<":">> \o PadStart(NumberToString(secs), 2, "0")

\* The timer display of a render: {formatTime(timeRemaining)} once QuizPage
\* renders the timer, nothing before.
TimerText(s) ==
  IF s.page = "ready" THEN FormatTime(s.timeRemaining) ELSE <<>>

Cur ==
  [token |-> token, sessionToken |-> sessionToken, page |-> page,
   socket |-> socket, openSockets |-> openSockets,
   isConnected |-> isConnected, error |-> error,
   sendBuffer |-> sendBuffer, emitted |-> <<>>, quizState |-> quizState,
   activeUsers |-> activeUsers, handlers |-> handlers, joinLive |-> joinLive,
   joinClosureJoined |-> joinClosureJoined, syncInterval |-> syncInterval,
   questions |-> questions, currentQuestionIndex |-> currentQuestionIndex,
   answers |-> answers, isSubmitting |-> isSubmitting,
   securityEnabled |-> securityEnabled, warningCount |-> warningCount,
   navPending |-> navPending, timeRemaining |-> timeRemaining,
   isWarning |-> isWarning, isCritical |-> isCritical,
   countdown |-> countdown, timerSync |-> timerSync,
   syncElapsed |-> syncElapsed,
   timeUpCalls |-> timeUpCalls, listeners |-> listeners, styleEl |-> styleEl,
   blurCount |-> blurCount, prevented |-> FALSE, user |-> user,
   authLoading |-> authLoading, authPending |-> authPending, now |-> now,
   questionStartTime |-> questionStartTime, lastEvent |-> lastEvent]

Is(s) ==
  /\ token = s.token
  /\ sessionToken = s.sessionToken
  /\ page = s.page
  /\ socket = s.socket
  /\ openSockets = s.openSockets
  /\ isConnected = s.isConnected
  /\ error = s.error
  /\ sendBuffer = s.sendBuffer
  /\ emitted = s.emitted
  /\ quizState = s.quizState
  /\ activeUsers = s.activeUsers
  /\ handlers = s.handlers
  /\ joinLive = s.joinLive
  /\ joinClosureJoined = s.joinClosureJoined
  /\ syncInterval = s.syncInterval
  /\ questions = s.questions
  /\ currentQuestionIndex = s.currentQuestionIndex
  /\ answers = s.answers
  /\ isSubmitting = s.isSubmitting
  /\ securityEnabled = s.securityEnabled
  /\ warningCount = s.warningCount
  /\ navPending = s.navPending
  /\ timeRemaining = s.timeRemaining
  /\ isWarning = s.isWarning
  /\ isCritical = s.isCritical
  /\ countdown = s.countdown
  /\ timerSync = s.timerSync
  /\ syncElapsed = s.syncElapsed
  /\ timeUpCalls = s.timeUpCalls
  /\ listeners = s.listeners
  /\ styleEl = s.styleEl
  /\ blurCount = s.blurCount
  /\ prevented = s.prevented
  /\ timeText = TimerText(s)
  /\ user = s.user
  /\ authLoading = s.authLoading
  /\ authPending = s.authPending
  /\ now = s.now
  /\ questionStartTime = s.questionStartTime
  /\ lastEvent = s.lastEvent

Becomes(s) ==
  /\ token' = s.token
  /\ sessionToken' = s.sessionToken
  /\ page' = s.page
  /\ socket' = s.socket
  /\ openSockets' = s.openSockets
  /\ isConnected' = s.isConnected
  /\ error' = s.error
  /\ sendBuffer' = s.sendBuffer
  /\ emitted' = s.emitted
  /\ quizState' = s.quizState
  /\ activeUsers' = s.activeUsers
  /\ handlers' = s.handlers
  /\ joinLive' = s.joinLive
  /\ joinClosureJoined' = s.joinClosureJoined
  /\ syncInterval' = s.syncInterval
  /\ questions' = s.questions
  /\ currentQuestionIndex' = s.currentQuestionIndex
  /\ answers' = s.answers
  /\ isSubmitting' = s.isSubmitting
  /\ securityEnabled' = s.securityEnabled
  /\ warningCount' = s.warningCount
  /\ navPending' = s.navPending
  /\ timeRemaining' = s.timeRemaining
  /\ isWarning' = s.isWarning
  /\ isCritical' = s.isCritical
  /\ countdown' = s.countdown
  /\ timerSync' = s.timerSync
  /\ syncElapsed' = s.syncElapsed
  /\ timeUpCalls' = s.timeUpCalls
  /\ listeners' = s.listeners
  /\ styleEl' = s.styleEl
  /\ blurCount' = s.blurCount
  /\ prevented' = s.prevented
  /\ timeText' = TimerText(s)
  /\ user' = s.user
  /\ authLoading' = s.authLoading
  /\ authPending' = s.authPending
  /\ now' = s.now
  /\ questionStartTime' = s.questionStartTime
  /\ lastEvent' = s.lastEvent

Mounted(s) == s.page # "unmounted"
\* QuizPage renders SecurityWrapper and QuizTimer only past its loading and
\* error returns.
Ready(s) == s.page = "ready"

(***************************************************************************)
(* useSocket: emit and the socket's own behaviour.                         *)
(***************************************************************************)
\* An emit without the isConnected test: socket.emit whenever a socket
\* exists.
EmitUnguarded(s, closureConnected, msg) ==
  IF s.socket = "none" THEN s
  ELSE IF s.socket = "connected"
       THEN [s EXCEPT !.emitted = Append(@, msg)]
       ELSE [s EXCEPT !.sendBuffer = Append(@, msg)]

\* emit(event, data) as seen by a closure that captured isConnected =
\* closureConnected.  A packet emitted on a socket that is not connected is
\* kept in the socket's send buffer.
Emit(s, closureConnected, msg) ==
  IF s.socket = "none" \/ ~closureConnected THEN s
  ELSE IF s.socket = "connected"
       THEN [s EXCEPT !.emitted = Append(@, msg)]
       ELSE [s EXCEPT !.sendBuffer = Append(@, msg)]

\* socket.disconnect() of the effect's cleanup; a connected socket fires its
\* 'disconnect' listener, which sets isConnected to false.
\* A cleanup that leaves the socket as it is.
SocketDisconnectKept(s) == s

SocketDisconnect(s) ==
  IF s.socket = "connected"
  THEN [s EXCEPT !.socket = "closed", !.isConnected = FALSE,
                 !.openSockets = Max(0, @ - 1)]
  ELSE IF s.socket \in {"connecting", "reconnecting"}
       THEN [s EXCEPT !.socket = "closed", !.openSockets = Max(0, @ - 1)]
       ELSE s

\* io(SOCKET_URL, ...): a new socket that starts connecting.
OpenSocket(s) == [s EXCEPT !.socket = "connecting", !.openSockets = @ + 1]

\* A connection effect that opens a socket whether or not there is a token.
ConnectionEffectNoGuard(prev, s) ==
  LET changed == ~Mounted(prev) \/ ~Mounted(s) \/ s.token # prev.token
      cleaned == IF Mounted(prev) /\ changed THEN SocketDisconnect(s) ELSE s
  IN IF Mounted(s) /\ changed THEN OpenSocket(cleaned) ELSE cleaned

\* A connection effect that returns no cleanup.
ConnectionEffectNoCleanup(prev, s) ==
  LET changed == ~Mounted(prev) \/ ~Mounted(s) \/ s.token # prev.token
  IN IF Mounted(s) /\ changed /\ s.token # NoToken
     THEN OpenSocket(s)
     ELSE s

\* The connection effect, dependencies [token]: the cleanup of the run that
\* created a socket, then the body.
ConnectionEffect(prev, s) ==
  LET changed == ~Mounted(prev) \/ ~Mounted(s) \/ s.token # prev.token
      cleaned == IF Mounted(prev) /\ prev.token # NoToken /\ changed
                 THEN SocketDisconnect(s) ELSE s
  IN IF Mounted(s) /\ changed /\ s.token # NoToken
     THEN OpenSocket(cleaned)
     ELSE cleaned

(***************************************************************************)
(* useQuizSocket: the join effect and the 30 s resync effect.              *)
(***************************************************************************)
JoinGuard(s) ==
  Mounted(s) /\ s.socket # "none" /\ s.isConnected /\ s.sessionToken # Undefined

\* A join effect that registers the handlers and leaves the join to its
\* caller.
JoinBodySilent(s) ==
  [s EXCEPT !.handlers = @ + 1, !.joinLive = TRUE,
            !.joinClosureJoined = s.quizState.isJoined]

\* A join effect that joins once per handler it registers.
JoinBodyTwice(s) ==
  LET msg == [type |-> "join_quiz", session_token |-> s.sessionToken]
      e == Emit(Emit(s, s.isConnected, msg), s.isConnected, msg)
  IN [e EXCEPT !.handlers = @ + 1, !.joinLive = TRUE,
               !.joinClosureJoined = s.quizState.isJoined]

\* The join effect's body: emit join_quiz, register the seven handlers.
JoinBody(s) ==
  LET e == Emit(s, s.isConnected,
                [type |-> "join_quiz", session_token |-> s.sessionToken])
  IN [e EXCEPT !.handlers = @ + 1, !.joinLive = TRUE,
               !.joinClosureJoined = s.quizState.isJoined]

\* The cleanup sees the isConnected (true) and the quizState of the render
\* in which the effect ran.
JoinCleanup(s) ==
  LET o == [s EXCEPT !.handlers = Max(0, @ - 1), !.joinLive = FALSE]
  IN IF s.joinClosureJoined THEN Emit(o, TRUE, [type |-> "leave_quiz"]) ELSE o

\* Dependencies [socket, isConnected, sessionToken].  socketRef.current is
\* set before isConnected can become true and is never reset, and
\* sessionToken is fixed while the page is mounted, so the dependencies
\* change exactly when the guard changes.
JoinEffect(s) ==
  IF s.joinLive /\ ~JoinGuard(s) THEN JoinCleanup(s)
  ELSE IF ~s.joinLive /\ JoinGuard(s) THEN JoinBody(s)
  ELSE s

\* A 30 s effect that does not look at quizState.isJoined.
SyncEffectUnjoined(s) ==
  [s EXCEPT !.syncInterval =
     Mounted(s) /\ s.socket # "none" /\ s.isConnected]

\* Dependencies [socket, isConnected, quizState.isJoined].
SyncEffect(s) ==
  [s EXCEPT !.syncInterval =
     Mounted(s) /\ s.socket # "none" /\ s.isConnected /\ s.quizState.isJoined]

SocketEffects(prev, s) == SyncEffect(JoinEffect(ConnectionEffect(prev, s)))

(***************************************************************************)
(* QuizPage: finishing.                                                    *)
(***************************************************************************)
\* A finishQuiz that forgets to emit.
FinishQuizSilent(s) == s

\* finishQuiz: emit('finish_quiz') through the emit of the same render.
FinishQuiz(s) == Emit(s, s.isConnected, [type |-> "finish_quiz"])

\* setIsSubmitting(true) and the finally block's setIsSubmitting(false) are
\* batched into one render, which sees false.
HandleFinishQuiz(s) ==
  IF s.isSubmitting THEN s
  ELSE [FinishQuiz(s) EXCEPT !.navPending = TRUE, !.isSubmitting = FALSE]

HandleTimeUp(s) == HandleFinishQuiz(s)

OnTimeUp(s) == HandleTimeUp([s EXCEPT !.timeUpCalls = @ + 1])

\* A handler that compares the counter after its increment with 2.
HandleSecurityViolationEarly(s) ==
  LET u == [s EXCEPT !.warningCount = @ + 1]
  IN IF u.warningCount >= 2 THEN HandleFinishQuiz(u) ELSE u

\* handleSecurityViolation: the updater increments the counter; the test
\* reads the warningCount of the render that created the handler.
HandleSecurityViolation(s) ==
  LET u == [s EXCEPT !.warningCount = @ + 1]
  IN IF s.warningCount >= 2 THEN HandleFinishQuiz(u) ELSE u

(***************************************************************************)
(* QuizTimer.                                                              *)
(***************************************************************************)
\* useState(initialTimeRemaining || 0)
InitialTime(prop) == IF prop = Null \/ prop = 0 THEN 0 ELSE prop

\* The seed effect, dependencies [initialTimeRemaining].
SeedEffect(prev, s) ==
  IF s.quizState.timeRemaining # prev.quizState.timeRemaining
     /\ s.quizState.timeRemaining # Null
  THEN [s EXCEPT !.timeRemaining = s.quizState.timeRemaining]
  ELSE s

\* The countdown effect, dependencies [timeRemaining, onTimeUp]: it runs
\* again after every render of QuizPage, which passes a new onTimeUp.
CountdownEffect(s) ==
  IF s.timeRemaining <= 0
  THEN OnTimeUp([s EXCEPT !.countdown = FALSE])
  ELSE [s EXCEPT !.countdown = TRUE]

\* getTimerColor, getBackgroundColor and the alerts: the band displayed.
TimerBand(warning, critical) ==
  IF critical THEN "Critical" ELSE IF warning THEN "Warning" ELSE "Normal"

TimerMount(s) ==
  [s EXCEPT !.timeRemaining = InitialTime(s.quizState.timeRemaining),
            !.isWarning = FALSE, !.isCritical = FALSE, !.timerSync = TRUE,
            !.syncElapsed = 0]

\* An unmount that clears the countdown and leaves the 120 s interval set.
TimerUnmountKeepsSync(s) == [s EXCEPT !.countdown = FALSE, !.syncElapsed = 0]

\* The cleanups of the countdown effect and of the 120 s effect.
TimerUnmount(s) ==
  [s EXCEPT !.countdown = FALSE, !.timerSync = FALSE, !.syncElapsed = 0]

\* Events whose handler sets a state of QuizPage or of its hooks to a new
\* object, whatever the values in it.
NewObjectEvents ==
  {"quiz_joined", "time_sync", "question_changed", "quiz_completed",
   "answer_select", "load_user_ok"}

\* QuizPage rendered again: a state of the page or of its hooks was set to
\* a different value.  Every render of QuizPage creates a new handleTimeUp
\* and a new requestTimeSync.
PageRendered(prev, s) ==
  \/ s.lastEvent \in NewObjectEvents
  \/ s.token # prev.token
  \/ s.isConnected # prev.isConnected
  \/ s.error # prev.error
  \/ s.activeUsers # prev.activeUsers
  \/ s.currentQuestionIndex # prev.currentQuestionIndex
  \/ s.securityEnabled # prev.securityEnabled
  \/ s.warningCount # prev.warningCount
  \/ s.isSubmitting # prev.isSubmitting

\* The 120 s effect, dependencies [onTimeSync]: a new onTimeSync clears the
\* interval and sets a new one, which starts its period again.
SyncIntervalEffect(prev, s) ==
  IF PageRendered(prev, s) THEN [s EXCEPT !.syncElapsed = 0] ELSE s

TimerEffects(prev, s) ==
  IF Ready(s)
  THEN IF Ready(prev)
       THEN SyncIntervalEffect(prev, CountdownEffect(SeedEffect(prev, s)))
       ELSE CountdownEffect(TimerMount(s))
  ELSE IF Ready(prev) THEN TimerUnmount(s) ELSE s

(***************************************************************************)
(* SecurityWrapper.                                                        *)
(***************************************************************************)
MonitorOn(s) == Ready(s) /\ s.securityEnabled

\* Both effects' bodies, dependencies [enabled]: the listeners and the style
\* are added, and the blur effect declares a new blurCount = 0.
MonitorAttach(s) ==
  [s EXCEPT !.listeners = [e \in DOMAIN @ |-> @[e] + 1],
            !.styleEl = TRUE, !.blurCount = 0]

\* Cleanups that leave the keyup listener attached.
MonitorDetachKeepsKeyUp(s) ==
  [s EXCEPT !.listeners = [e \in DOMAIN @ |->
                             IF e = "keyup" THEN @[e] ELSE Max(0, @[e] - 1)],
            !.styleEl = FALSE]

\* Both effects' cleanups.
MonitorDetach(s) ==
  [s EXCEPT !.listeners = [e \in DOMAIN @ |-> Max(0, @[e] - 1)],
            !.styleEl = FALSE]

SecurityEffects(prev, s) ==
  IF MonitorOn(s) /\ ~MonitorOn(prev) THEN MonitorAttach(s)
  ELSE IF ~MonitorOn(s) /\ MonitorOn(prev) THEN MonitorDetach(s)
  ELSE s

(***************************************************************************)
(* A render and its effects, children before parents; a navigate() called  *)
(* on the way is rendered next and unmounts the page.                      *)
(***************************************************************************)
\* A page that never resets the start time after its first render.
QuestionStartEffectOnce(prev, s) ==
  IF Mounted(s) /\ ~Mounted(prev)
  THEN [s EXCEPT !.questionStartTime = s.now]
  ELSE s

\* QuizPage's effect with dependencies [currentQuestionIndex]:
\* setQuestionStartTime(Date.now()) at mount and after every render in
\* which the index differs.
QuestionStartEffect(prev, s) ==
  IF Mounted(s)
     /\ (~Mounted(prev) \/ s.currentQuestionIndex # prev.currentQuestionIndex)
  THEN [s EXCEPT !.questionStartTime = s.now]
  ELSE s

Effects(prev, s) ==
  QuestionStartEffect(prev,
    SocketEffects(prev, SecurityEffects(prev, TimerEffects(prev, s))))

Unmounted(s) == [s EXCEPT !.page = "unmounted", !.navPending = FALSE]

\* Unmounting runs every pending cleanup; the components' state is gone.
\* The timer's last values are kept as what it last displayed.
Forget(s) ==
  [s EXCEPT !.sessionToken = Undefined, !.isConnected = FALSE,
            !.error = NoError, !.sendBuffer = <<>>,
            !.quizState = InitialQuizState, !.activeUsers = 0,
            !.joinClosureJoined = FALSE, !.questions = <<>>,
            !.currentQuestionIndex = 0, !.answers = <<>>,
            !.isSubmitting = FALSE, !.securityEnabled = TRUE,
            !.warningCount = 0, !.blurCount = 0, !.questionStartTime = 0]

Teardown(s) == Forget(Effects(s, Unmounted(s)))

Settle(prev, s) ==
  LET s1 == Effects(prev, s)
  IN IF s1.navPending /\ Mounted(s1) THEN Teardown(s1) ELSE s1

(***************************************************************************)
(* Lifecycle.                                                              *)
(***************************************************************************)
\* The state of a freshly mounted QuizPage: every useState initial value.
Fresh(s, st) ==
  [s EXCEPT !.sessionToken = st, !.page = "loading", !.socket = "none",
            !.isConnected = FALSE, !.error = NoError, !.sendBuffer = <<>>,
            !.quizState = InitialQuizState, !.activeUsers = 0,
            !.handlers = 0, !.joinLive = FALSE, !.joinClosureJoined = FALSE,
            !.syncInterval = FALSE, !.questions = <<>>,
            !.currentQuestionIndex = 0, !.answers = <<>>,
            !.isSubmitting = FALSE, !.securityEnabled = TRUE,
            !.warningCount = 0, !.navPending = FALSE, !.timeRemaining = 0,
            !.isWarning = FALSE, !.isCritical = FALSE, !.countdown = FALSE,
            !.timerSync = FALSE, !.syncElapsed = 0, !.timeUpCalls = 0,
            !.listeners = NoListeners, !.styleEl = FALSE, !.blurCount = 0,
            !.questionStartTime = s.now]

\* Before the page is first mounted.
Blank ==
  [token |-> NoToken, sessionToken |-> Undefined, page |-> "unmounted",
   socket |-> "none", openSockets |-> 0, isConnected |-> FALSE,
   error |-> NoError,
   sendBuffer |-> <<>>, emitted |-> <<>>, quizState |-> InitialQuizState,
   activeUsers |-> 0, handlers |-> 0, joinLive |-> FALSE,
   joinClosureJoined |-> FALSE, syncInterval |-> FALSE, questions |-> <<>>,
   currentQuestionIndex |-> 0, answers |-> <<>>, isSubmitting |-> FALSE,
   securityEnabled |-> TRUE, warningCount |-> 0, navPending |-> FALSE,
   timeRemaining |-> 0, isWarning |-> FALSE, isCritical |-> FALSE,
   countdown |-> FALSE, timerSync |-> FALSE, syncElapsed |-> 0,
   timeUpCalls |-> 0,
   listeners |-> NoListeners, styleEl |-> FALSE, blurCount |-> 0,
   prevented |-> FALSE, user |-> NoUser, authLoading |-> FALSE,
   authPending |-> 0, now |-> 0, questionStartTime |-> 0,
   lastEvent |-> "init"]

\* AuthProvider starts with the token of localStorage and no user; its
\* effect has run: with a token a /auth/me request is in flight and loading
\* is true, without one loading is false.
Init ==
  \E tk \in Tokens \cup {NoToken} :
    Is([Blank EXCEPT !.token = tk, !.authLoading = (tk # NoToken),
                     !.authPending = IF tk # NoToken THEN 1 ELSE 0])

\* A step starts with nothing emitted and nothing cancelled.
Start(name) == [Cur EXCEPT !.lastEvent = name]

\* ProtectedRoute renders its children.
RouteOpen(s) == s.user # NoUser /\ ~s.authLoading

\* AuthProvider's effect, dependencies [token]: loadUser.
LoadUserEffect(prev, s) ==
  IF s.token = prev.token THEN s
  ELSE IF s.token = NoToken THEN [s EXCEPT !.authLoading = FALSE]
  ELSE [s EXCEPT !.authPending = @ + 1]

\* The route renders QuizPage.
Mount ==
  /\ page = "unmounted"
  /\ RouteOpen(Cur)
  /\ \E st \in SessionTokens \cup {Undefined} :
       Becomes(Settle(Cur, Fresh(Start("mount"), st)))

\* The segments a /quiz/<segment> URL can carry: the dashboard links with a
\* quiz id, a typed URL can carry a session token.
QuizIds == {"q1"}
PathSegments == QuizIds \cup SessionTokens

\* <Route path="/quiz/:quizId">: the parameters the quiz route binds.
QuizRouteParams(segment) == [quizId |-> segment]

\* useParams() destructured by name: a name the route did not bind is
\* undefined.
UseParams(params, name) ==
  IF name \in DOMAIN params THEN params[name] ELSE Undefined

\* The router matches /quiz/<segment> and renders QuizPage, which reads
\* useParams().sessionToken.
RouteToQuiz ==
  /\ page = "unmounted"
  /\ RouteOpen(Cur)
  /\ \E segment \in PathSegments :
       Becomes(Settle(Cur, Fresh(Start("route_quiz"),
                                 UseParams(QuizRouteParams(segment),
                                           "sessionToken"))))

\* loadQuizData: both requests succeeded.
LoadedState(s, qs, idx) ==
  [s EXCEPT !.page = "ready", !.questions = qs, !.currentQuestionIndex = idx]

LoadOkOf(qs, idx) ==
  /\ page = "loading"
  /\ sessionToken # Undefined
  /\ Becomes(Settle(Cur, LoadedState(Start("load_ok"), qs, idx)))

LoadOk ==
  \E qs \in QuestionLists, idx \in 0..(MaxQuestions - 1) : LoadOkOf(qs, idx)

\* loadQuizData: a request failed or was refused.
LoadFail ==
  /\ page = "loading"
  /\ Becomes(Settle(Cur, [Start("load_fail") EXCEPT !.page = "error"]))

\* The user navigates away; React runs every cleanup.
Unmount ==
  /\ page # "unmounted"
  /\ Becomes(Teardown(Start("unmount")))

\* loadUser's catch and finally: setToken(null), setLoading(false); the
\* user is left as it is.
LoadUserFailed(s) ==
  [s EXCEPT !.token = NoToken, !.authLoading = FALSE,
            !.authPending = @ - 1]

\* loadUser's try and finally: setUser(response.data), setLoading(false).
LoadUserDone(s) ==
  [s EXCEPT !.user = CHOOSE u \in Users : TRUE, !.authLoading = FALSE,
            !.authPending = @ - 1]

\* logout: setToken(null), setUser(null).
LoggedOut(s) == [s EXCEPT !.token = NoToken, !.user = NoUser]

\* useAuth loadUser: /auth/me failed, the stored token is cleared.
TokenRejected ==
  /\ authPending > 0
  /\ Becomes(Settle(Cur, LoadUserEffect(Cur,
                            LoadUserFailed(Start("token_rejected")))))

\* useAuth loadUser: /auth/me answered.
LoadUserOk ==
  /\ authPending > 0
  /\ Becomes(Settle(Cur, LoadUserDone(Start("load_user_ok"))))

\* useAuth login, from the login page, which PublicRoute renders while
\* there is no user (the quiz page is not rendered).
Login ==
  /\ page = "unmounted"
  /\ user = NoUser /\ ~authLoading
  /\ authPending < MaxPending
  /\ \E tk \in Tokens, u \in Users :
       Becomes(LoadUserEffect(Cur, [Start("login") EXCEPT
                                      !.token = tk, !.user = u]))

\* useAuth logout, from the Navbar shown while there is a user.  Without a
\* user ProtectedRoute redirects and the quiz page is unmounted.
Logout ==
  /\ user # NoUser
  /\ LET s == LoadUserEffect(Cur, LoggedOut(Start("logout")))
     IN Becomes(IF Mounted(s) /\ ~RouteOpen(s)
                THEN Forget(Effects(Cur, Unmounted(s)))
                ELSE Settle(Cur, s))

(***************************************************************************)
(* The channel's own events.                                               *)
(***************************************************************************)
\* 'connect': the socket sends what it buffered, then the listener runs.
OnConnect(s) ==
  [s EXCEPT !.socket = "connected", !.emitted = s.sendBuffer,
            !.sendBuffer = <<>>, !.isConnected = TRUE, !.error = NoError]

SocketConnect ==
  /\ socket \in {"connecting", "reconnecting"}
  /\ Becomes(Settle(Cur, OnConnect(Start("connect"))))

\* 'disconnect': the transport dropped; the library reconnects by itself.
\* A listener that also drops the quiz state when the connection is lost.
OnDisconnectResets(s) ==
  [s EXCEPT !.socket = "reconnecting", !.isConnected = FALSE,
            !.quizState = InitialQuizState]

OnDisconnect(s) == [s EXCEPT !.socket = "reconnecting", !.isConnected = FALSE]

SocketDrop ==
  /\ socket = "connected"
  /\ Becomes(Settle(Cur, OnDisconnect(Start("disconnect"))))

\* 'connect_error': the library retries a transport failure and gives up on
\* a refusal by the server.
OnConnectError(s, msg, retry) ==
  [s EXCEPT !.socket = IF retry THEN "reconnecting" ELSE "closed",
            !.openSockets = IF retry THEN @ ELSE Max(0, @ - 1),
            !.error = msg, !.isConnected = FALSE]

ConnectError ==
  /\ socket \in {"connecting", "reconnecting"}
  /\ \E msg \in ErrorMessages, retry \in BOOLEAN :
       Becomes(Settle(Cur, OnConnectError(Start("connect_error"), msg, retry)))

\* A listener that treats a protocol error as fatal to the session.
OnErrorFatal(s, msg) == HandleFinishQuiz([s EXCEPT !.error = msg])

\* 'error': the message is stored for the banner.
OnError(s, msg) == [s EXCEPT !.error = msg]

SocketError ==
  /\ socket = "connected"
  /\ \E msg \in ErrorMessages :
       Becomes(Settle(Cur, OnError(Start("error"), msg)))

(***************************************************************************)
(* Inbound quiz events: the server may send any of them, in any order,     *)
(* while the socket is connected; the handlers run while registered.       *)
(***************************************************************************)
Receiving == page # "unmounted" /\ socket = "connected" /\ handlers > 0

\* A handler that merges: it keeps the total of an earlier quiz_joined.
HandleQuizJoinedMerge(prev, t, i, n) ==
  [prev EXCEPT !.timeRemaining = t, !.currentQuestionIndex = i,
               !.totalQuestions = IF prev.isJoined THEN @ ELSE n,
               !.isJoined = TRUE]

\* handleQuizJoined: all four fields are set from the payload.
HandleQuizJoined(prev, t, i, n) ==
  [prev EXCEPT !.timeRemaining = t, !.currentQuestionIndex = i,
               !.totalQuestions = n, !.isJoined = TRUE]

\* A handler that never lets a sync move the clock forward.
HandleTimeSyncNeverForward(prev, t) ==
  IF prev.timeRemaining # Null /\ prev.timeRemaining < t THEN prev
  ELSE [prev EXCEPT !.timeRemaining = t]

HandleTimeSync(prev, t) == [prev EXCEPT !.timeRemaining = t]

HandleQuestionChanged(prev, i) == [prev EXCEPT !.currentQuestionIndex = i]

HandleQuizCompleted(prev) == [prev EXCEPT !.isJoined = FALSE]

HandleUserJoined(prev) == prev + 1

HandleUserLeft(prev) == Max(0, prev - 1)

\* quiz_joined{time_remaining: t, current_question_index: i, total_questions: n}
QuizJoinedOf(t, i, n) ==
  /\ Receiving
  /\ Becomes(Settle(Cur, [Start("quiz_joined") EXCEPT
                            !.quizState = HandleQuizJoined(@, t, i, n)]))

QuizJoined ==
  \E t \in TimeValues, i \in 0..(MaxQuestions - 1), n \in 0..MaxQuestions :
    QuizJoinedOf(t, i, n)

\* time_sync{time_remaining: t}
TimeSyncOf(t) ==
  /\ Receiving
  /\ Becomes(Settle(Cur, [Start("time_sync") EXCEPT
                            !.quizState = HandleTimeSync(@, t)]))

TimeSync == \E t \in TimeValues : TimeSyncOf(t)

\* A question_changed that also moves the page to the server's index.
QuestionChangedMovesPage ==
  /\ Receiving
  /\ \E i \in 0..(MaxQuestions - 1) :
       Becomes(Settle(Cur, [Start("question_changed") EXCEPT
                              !.quizState = HandleQuestionChanged(@, i),
                              !.currentQuestionIndex = i]))

QuestionChanged ==
  /\ Receiving
  /\ \E i \in 0..(MaxQuestions - 1) :
       Becomes(Settle(Cur, [Start("question_changed") EXCEPT
                              !.quizState = HandleQuestionChanged(@, i)]))

\* handleAnswerSubmitted only logs.
AnswerSubmitted ==
  /\ Receiving
  /\ Becomes(Start("answer_submitted"))

QuizCompleted ==
  /\ Receiving
  /\ Becomes(Settle(Cur, [Start("quiz_completed") EXCEPT
                            !.quizState = HandleQuizCompleted(@)]))

UserJoined ==
  /\ Receiving
  /\ activeUsers < MaxUsers
  /\ Becomes(Settle(Cur, [Start("user_joined") EXCEPT
                            !.activeUsers = HandleUserJoined(@)]))

UserLeft ==
  /\ Receiving
  /\ Becomes(Settle(Cur, [Start("user_left") EXCEPT
                            !.activeUsers = HandleUserLeft(@)]))

(***************************************************************************)
(* Interval callbacks.                                                     *)
(***************************************************************************)
\* Band flags with the boundaries themselves in the band above.
BandFlagsStrict(newTime) ==
  IF newTime < WarningLimit /\ newTime >= CriticalLimit
  THEN [isWarning |-> TRUE, isCritical |-> FALSE]
  ELSE IF newTime < CriticalLimit
       THEN [isWarning |-> TRUE, isCritical |-> TRUE]
       ELSE [isWarning |-> FALSE, isCritical |-> FALSE]

\* The band flags the updater sets for the new value.
BandFlags(newTime) ==
  IF newTime <= WarningLimit /\ newTime > CriticalLimit
  THEN [isWarning |-> TRUE, isCritical |-> FALSE]
  ELSE IF newTime <= CriticalLimit
       THEN [isWarning |-> TRUE, isCritical |-> TRUE]
       ELSE [isWarning |-> FALSE, isCritical |-> FALSE]

\* A countdown that loses two units per tick.
DecrementByTwo(prev) == Max(0, prev - 2)

\* const newTime = Math.max(0, prev - 1)
Decrement(prev) == Max(0, prev - 1)

\* The updater passed to setTimeRemaining by the countdown interval.
TickUpdater(s) ==
  LET newTime == Decrement(s.timeRemaining)
      u == [s EXCEPT !.timeRemaining = newTime,
                     !.isWarning = BandFlags(newTime).isWarning,
                     !.isCritical = BandFlags(newTime).isCritical]
  IN IF newTime = 0 THEN OnTimeUp(u) ELSE u

\* React runs the updater either when the callback queues it or in the next
\* render.  In the first case the navigate() of onTimeUp is rendered
\* together with the new time and the timer is unmounted without its
\* effects running; in the second the new time is committed first and the
\* countdown effect runs once more.
TickFires ==
  \E eager \in BOOLEAN :
    LET u == TickUpdater(Start("tick"))
    IN IF eager /\ u.navPending
       THEN Becomes(Teardown(u))
       ELSE Becomes(Settle(Cur, u))

\* The countdown interval's callback, while the local clock is less than
\* MaxDrift behind the last server time.
Tick ==
  /\ countdown
  /\ quizState.timeRemaining - timeRemaining < MaxDrift
  /\ TickFires

\* The countdown interval's callback, however far the local clock has run.
TickDown ==
  /\ countdown
  /\ TickFires

RequestTimeSync(s, closureConnected) ==
  Emit(s, closureConnected, [type |-> "request_time_sync"])

\* QuizTimer's 120 s interval calls onTimeSync, the requestTimeSync of the
\* last render of QuizPage.
TimerSyncFire ==
  /\ timerSync
  /\ syncElapsed = SyncPeriod
  /\ Becomes([RequestTimeSync(Start("timer_sync"), isConnected)
                EXCEPT !.syncElapsed = 0])

\* Milliseconds by which Date.now() is seen to advance between two events.
ClockSteps == {400, 1000}

\* Time passes on the clock read by Date.now().
ClockAdvance ==
  \E d \in ClockSteps :
    /\ now + d <= MaxElapsed * MsPerUnit
    /\ Becomes([Start("clock") EXCEPT !.now = @ + d])

\* One time unit passes for the 120 s interval and its callback is not due
\* yet.  (The countdown's own interval is the Tick action.)
TimePasses ==
  /\ timerSync
  /\ syncElapsed < SyncPeriod
  /\ Becomes([Start("time_passes") EXCEPT !.syncElapsed = @ + 1])

\* useQuizSocket's 30 s interval; its effect ran with isConnected true.
SocketSyncFire ==
  /\ syncInterval
  /\ Becomes(RequestTimeSync(Start("socket_sync"), TRUE))

(***************************************************************************)
(* Gestures observed by SecurityWrapper.  A gesture whose listener is not  *)
(* attached keeps the browser's default behaviour.                         *)
(***************************************************************************)
Key(k, ctrl, shift) == [key |-> k, ctrlKey |-> ctrl, shiftKey |-> shift]

Keys ==
  {Key("F12", FALSE, FALSE), Key("I", TRUE, TRUE), Key("J", TRUE, TRUE),
   Key("u", TRUE, FALSE), Key("s", TRUE, FALSE), Key("a", TRUE, FALSE),
   Key("c", TRUE, FALSE), Key("v", TRUE, FALSE), Key("x", TRUE, FALSE),
   Key("p", TRUE, FALSE), Key("a", FALSE, FALSE), Key("z", TRUE, FALSE),
   Key("PrintScreen", FALSE, FALSE)}

\* handleKeyDown: whether it calls e.preventDefault().
KeyDownRestricted(e) ==
  \/ e.key = "F12"
  \/ e.ctrlKey /\ e.shiftKey /\ e.key \in {"I", "J"}
  \/ e.ctrlKey /\ e.key \in {"u", "s", "a", "c", "v", "x", "p"}

\* handleKeyUp: whether it calls e.preventDefault().
KeyUpRestricted(e) == e.key = "PrintScreen"

\* A handleBlur wired to the controller: at the threshold it reports a
\* violation to the page.
HandleBlurEscalates(s) ==
  LET counted == [s EXCEPT !.blurCount = @ + 1]
  IN IF counted.blurCount >= MaxBlurCount
     THEN HandleSecurityViolation(counted)
     ELSE counted

\* handleBlur
HandleBlur(s) == [s EXCEPT !.blurCount = @ + 1]

\* handleFocus only logs.
HandleFocus(s) == s

\* The blur effect's report: console.error once blurCount >= maxBlurCount.
MaxSwitchesExceeded(s) == s.blurCount >= MaxBlurCount

\* A cancelling handler that also counts the gesture as a violation.
HandleCancelCounted(s) == [s EXCEPT !.prevented = TRUE, !.blurCount = @ + 1]

\* handleContextMenu, handleSelectStart, handleDragStart
HandleCancel(s) == [s EXCEPT !.prevented = TRUE]

HandleKeyDown(s, e) == [s EXCEPT !.prevented = KeyDownRestricted(e)]

HandleKeyUp(s, e) == [s EXCEPT !.prevented = KeyUpRestricted(e)]

Attached(name) == listeners[name] > 0

WindowBlur ==
  /\ page # "unmounted"
  /\ Attached("blur") => blurCount < MaxBlur
  /\ Becomes(IF Attached("blur") THEN HandleBlur(Start("blur"))
             ELSE Start("blur"))

WindowFocus ==
  /\ page # "unmounted"
  /\ Becomes(IF Attached("focus") THEN HandleFocus(Start("focus"))
             ELSE Start("focus"))

ContextMenu ==
  /\ page # "unmounted"
  /\ Becomes(IF Attached("contextmenu") THEN HandleCancel(Start("contextmenu"))
             ELSE Start("contextmenu"))

SelectStart ==
  /\ page # "unmounted"
  /\ Becomes(IF Attached("selectstart") THEN HandleCancel(Start("selectstart"))
             ELSE Start("selectstart"))

DragStart ==
  /\ page # "unmounted"
  /\ Becomes(IF Attached("dragstart") THEN HandleCancel(Start("dragstart"))
             ELSE Start("dragstart"))

KeyDown ==
  /\ page # "unmounted"
  /\ \E e \in Keys :
       Becomes(IF Attached("keydown") THEN HandleKeyDown(Start("keydown"), e)
               ELSE Start("keydown"))

KeyUp ==
  /\ page # "unmounted"
  /\ \E e \in Keys :
       Becomes(IF Attached("keyup") THEN HandleKeyUp(Start("keyup"), e)
               ELSE Start("keyup"))

(***************************************************************************)
(* The page's controls, rendered once the quiz is loaded.                  *)
(***************************************************************************)
\* currentQuestion = questions[currentQuestionIndex] is defined.
HasCurrentQuestion(s) == s.currentQuestionIndex + 1 \in DOMAIN s.questions

\* An update that forgets to spread the previous answers.
AnswersReplace(prev, questionId, selectedAnswer) ==
  (questionId :> selectedAnswer)

\* setAnswers(prev => ({...prev, [questionId]: selectedAnswer}))
AnswersUpdate(prev, questionId, selectedAnswer) ==
  (questionId :> selectedAnswer) @@ prev

\* A submitAnswer that emits nothing.
SubmitAnswerSilent(s, questionId, selectedAnswer, timeTaken) == s

SubmitAnswer(s, questionId, selectedAnswer, timeTaken) ==
  Emit(s, s.isConnected,
       [type |-> "submit_answer", question_id |-> questionId,
        selected_answer |-> selectedAnswer, time_taken |-> timeTaken])

\* Math.floor((Date.now() - questionStartTime) / 1000)
TimeTaken(s) == (s.now - s.questionStartTime) \div MsPerUnit

HandleAnswerSelect(s, selectedAnswer) ==
  IF ~HasCurrentQuestion(s) THEN s
  ELSE LET questionId == s.questions[s.currentQuestionIndex + 1]
       IN SubmitAnswer([s EXCEPT !.answers =
                          AnswersUpdate(@, questionId, selectedAnswer)],
                       questionId, selectedAnswer, TimeTaken(s))

NextQuestionEmit(s, questionIndex) ==
  Emit(s, s.isConnected,
       [type |-> "next_question", question_index |-> questionIndex])

\* A Next handler that does not look at the number of questions.
HandleNextQuestionUnguarded(s) ==
  NextQuestionEmit([s EXCEPT !.currentQuestionIndex = @ + 1],
                   s.currentQuestionIndex + 1)

HandleNextQuestion(s) ==
  IF s.currentQuestionIndex < Len(s.questions) - 1
  THEN NextQuestionEmit([s EXCEPT !.currentQuestionIndex = @ + 1],
                        s.currentQuestionIndex + 1)
  ELSE s

HandlePreviousQuestion(s) ==
  IF s.currentQuestionIndex > 0
  THEN NextQuestionEmit([s EXCEPT !.currentQuestionIndex = @ - 1],
                        s.currentQuestionIndex - 1)
  ELSE s

\* An answer button of the current question.
AnswerSelectOf(o) ==
  /\ page = "ready"
  /\ HasCurrentQuestion(Cur)
  /\ Becomes(Settle(Cur, HandleAnswerSelect(Start("answer_select"), o)))

AnswerSelect == \E o \in Options : AnswerSelectOf(o)

\* The Next button replaces the Finish button except on the last question.
NextClick ==
  /\ page = "ready"
  /\ HasCurrentQuestion(Cur)
  /\ currentQuestionIndex # Len(questions) - 1
  /\ Becomes(Settle(Cur, HandleNextQuestion(Start("next_click"))))

\* The Previous button is disabled on the first question.
PreviousClick ==
  /\ page = "ready"
  /\ HasCurrentQuestion(Cur)
  /\ currentQuestionIndex # 0
  /\ Becomes(Settle(Cur, HandlePreviousQuestion(Start("previous_click"))))

\* A button of the question-navigation grid: setCurrentQuestionIndex(index).
GridClick ==
  /\ page = "ready"
  /\ \E index \in 0..(Len(questions) - 1) :
       Becomes(Settle(Cur, [Start("grid_click") EXCEPT
                              !.currentQuestionIndex = index]))

\* The Finish button, shown on the last question.
FinishClick ==
  /\ page = "ready"
  /\ HasCurrentQuestion(Cur)
  /\ currentQuestionIndex = Len(questions) - 1
  /\ ~isSubmitting
  /\ Becomes(Settle(Cur, HandleFinishQuiz(Start("finish_click"))))

\* The security toggle: setSecurityEnabled(!securityEnabled).
ToggleSecurity ==
  /\ page = "ready"
  /\ Becomes(Settle(Cur, [Start("toggle_security") EXCEPT
                            !.securityEnabled = ~@]))

\* A securityViolation signal: the handleSecurityViolation of the last
\* render is called, once per task.
SecurityViolation ==
  /\ page = "ready"
  /\ Becomes(Settle(Cur, HandleSecurityViolation(Start("security_violation"))))

(***************************************************************************)
(* The specification.                                                      *)
(***************************************************************************)
Lifecycle ==
  \/ LoadUserOk \/ Mount \/ LoadOk \/ LoadFail \/ Unmount
  \/ TokenRejected \/ Login

Channel == SocketConnect \/ SocketDrop \/ ConnectError \/ SocketError

Inbound ==
  \/ QuizJoined \/ TimeSync \/ QuestionChanged \/ AnswerSubmitted
  \/ QuizCompleted \/ UserJoined \/ UserLeft

Intervals ==
  Tick \/ TimePasses \/ ClockAdvance \/ TimerSyncFire \/ SocketSyncFire

Gestures ==
  \/ WindowBlur \/ WindowFocus \/ ContextMenu \/ SelectStart \/ DragStart
  \/ KeyDown \/ KeyUp

Controls ==
  \/ AnswerSelect \/ NextClick \/ PreviousClick \/ GridClick \/ FinishClick
  \/ ToggleSecurity

Next ==
  \/ Logout \/ RouteToQuiz
  \/ Lifecycle \/ Channel \/ Inbound \/ Intervals \/ Gestures \/ Controls
  \/ SecurityViolation

Spec == Init /\ [][Next]_vars

\* A quiz_joined that leaves time on the clock while the page is used.
JoinedWithTime == QuizJoinedOf(WarningLimit + 2, 0, MaxQuestions)

\* The integrity monitor on a joined session.
NextMonitor ==
  \/ LoadUserOk
  \/ Mount \/ LoadOk \/ Unmount \/ SocketConnect \/ JoinedWithTime
  \/ Gestures \/ ToggleSecurity

SpecMonitor == Init /\ [][NextMonitor]_vars

\* The page's question and answer controls on a joined session.
NextPage ==
  \/ LoadUserOk
  \/ Mount \/ LoadOk \/ Unmount \/ SocketConnect \/ SocketDrop
  \/ JoinedWithTime
  \/ AnswerSelect \/ NextClick \/ PreviousClick \/ GridClick

SpecPage == Init /\ [][NextPage]_vars

\* A quiz_joined with any time on the clock, on the first question.
JoinedWithAnyTime == \E t \in TimeValues : QuizJoinedOf(t, 0, MaxQuestions)

\* The session and its countdown: the page's lifecycle, the connection, the
\* server's time messages and the countdown's ticks.
NextTimer ==
  \/ Lifecycle \/ SocketConnect \/ SocketDrop
  \/ JoinedWithAnyTime \/ TimeSync \/ QuizCompleted \/ Tick

SpecTimer == Init /\ [][NextTimer]_vars

\* Everything that sets or releases an interval, a listener, a handler or
\* the connection.
NextResources ==
  \/ Lifecycle \/ SocketConnect \/ SocketDrop \/ ConnectError
  \/ JoinedWithAnyTime \/ TimeSync \/ QuizCompleted
  \/ Tick \/ ToggleSecurity \/ FinishClick

SpecResources == Init /\ [][NextResources]_vars

\* The page's own violation counter on a joined session, connected or not.
NextViolation ==
  \/ LoadUserOk
  \/ Mount \/ LoadOk \/ Unmount \/ SocketConnect \/ SocketDrop
  \/ JoinedWithTime \/ SecurityViolation \/ WindowBlur \/ ToggleSecurity

SpecViolation == Init /\ [][NextViolation]_vars

\* A session over an unreliable channel: every channel event and load
\* outcome, the server's time messages, the countdown and the answers.
NextChannel ==
  \/ LoadUserOk \/ Mount \/ LoadOk \/ LoadFail \/ Unmount \/ Channel
  \/ JoinedWithAnyTime \/ TimeSync \/ QuizCompleted
  \/ Tick \/ AnswerSelect

SpecChannel == Init /\ [][NextChannel]_vars

\* The synchronizer's quiz state under every payload the server can send,
\* across drops and reconnects, with the countdown it feeds.
LoadedWhole == LoadOkOf([k \in 1..MaxQuestions |-> k], 0)

NextSync ==
  \/ LoadUserOk
  \/ Mount \/ LoadedWhole \/ Unmount \/ SocketConnect \/ SocketDrop
  \/ QuizJoined \/ TimeSync \/ QuestionChanged \/ QuizCompleted \/ Tick

SpecSync == Init /\ [][NextSync]_vars

\* Every event that reaches the hooks of a session: lifecycle, channel
\* events, every inbound quiz event, the countdown and local navigation.
NextFrame ==
  \/ LoadUserOk
  \/ Mount \/ LoadedWhole \/ LoadFail \/ Unmount
  \/ Channel
  \/ JoinedWithAnyTime \/ TimeSync \/ QuestionChanged \/ AnswerSubmitted
  \/ QuizCompleted \/ UserJoined \/ UserLeft
  \/ Tick \/ NextClick \/ PreviousClick

SpecFrame == Init /\ [][NextFrame]_vars

\* The connection under every change of credential and every mount and
\* unmount, with the calls that emit.
NextAuth ==
  \/ LoadUserOk
  \/ Mount \/ LoadedWhole \/ LoadFail \/ Unmount \/ TokenRejected \/ Login
  \/ Channel \/ JoinedWithTime
  \/ NextClick \/ PreviousClick \/ FinishClick

SpecAuth == Init /\ [][NextAuth]_vars

\* A server time message with time left on the clock.
SyncWithTime == TimeSyncOf(WarningLimit + 2)

\* The timer's 120 s resync interval on a joined session: time passing,
\* the interval's callback, and what re-renders the page in between.
NextCadence ==
  \/ LoadUserOk
  \/ Mount \/ LoadedWhole \/ Unmount \/ SocketConnect \/ SocketDrop
  \/ JoinedWithTime \/ SyncWithTime
  \/ TimePasses \/ TimerSyncFire \/ SocketSyncFire

SpecCadence == Init /\ [][NextCadence]_vars

\* The outbound operations of a joined session called from the page's
\* controls and from the timer's interval, over connects and drops.
NextOutbound ==
  \/ LoadUserOk
  \/ Mount \/ LoadedWhole \/ Unmount \/ SocketConnect \/ SocketDrop
  \/ JoinedWithTime \/ AnswerSelect \/ NextClick \/ PreviousClick
  \/ FinishClick \/ TimePasses \/ TimerSyncFire

SpecOutbound == Init /\ [][NextOutbound]_vars

\* The countdown running from a seed down to 0, with later seeds.
NextCountdown ==
  \/ LoadUserOk
  \/ Mount \/ LoadedWhole \/ Unmount \/ SocketConnect
  \/ JoinedWithAnyTime \/ TickDown

SpecCountdown == Init /\ [][NextCountdown]_vars

\* Server times around every boundary of the display's fields.
DisplayTimes ==
  {1, 5, 9, 10, 59, 60, 61, 125, 300, 599, 600, 3599, 3600, 3601, 3661,
   7325, 35999, 36000, 86399, 360000}

JoinedWithDisplayTime ==
  \E t \in DisplayTimes : QuizJoinedOf(t, 0, MaxQuestions)

\* The timer display over the server's times and the ticks after them.
NextFormat ==
  \/ LoadUserOk
  \/ Mount \/ LoadedWhole \/ Unmount \/ SocketConnect
  \/ JoinedWithDisplayTime \/ Tick

SpecFormat == Init /\ [][NextFormat]_vars

\* The hook's 30 s interval over joins, completions, drops and reconnects.
NextResync ==
  \/ LoadUserOk
  \/ Mount \/ LoadedWhole \/ Unmount \/ SocketConnect \/ SocketDrop
  \/ JoinedWithAnyTime \/ TimeSync \/ QuizCompleted \/ SocketSyncFire

SpecResync == Init /\ [][NextResync]_vars

\* Answers and navigation on a joined session while the clock runs.
NextElapsed ==
  \/ LoadUserOk
  \/ Mount \/ LoadOk \/ Unmount \/ SocketConnect \/ JoinedWithTime
  \/ AnswerSelectOf("a") \/ NextClick \/ PreviousClick \/ GridClick
  \/ ClockAdvance

SpecElapsed == Init /\ [][NextElapsed]_vars

\* A quiz_joined with time on the clock, at any index of any total.
JoinedAtAnyIndex ==
  \E i \in 0..(MaxQuestions - 1), n \in 0..MaxQuestions :
    QuizJoinedOf(WarningLimit + 2, i, n)

\* The page's index under its controls and the hook's index under the
\* server's events.
NextIndices ==
  \/ LoadUserOk
  \/ Mount \/ LoadOk \/ Unmount \/ SocketConnect \/ SocketDrop
  \/ JoinedAtAnyIndex \/ QuestionChanged
  \/ NextClick \/ PreviousClick \/ GridClick

SpecIndices == Init /\ [][NextIndices]_vars

\* Login, logout and the /auth/me check around a quiz session.
NextSession ==
  \/ LoadUserOk
  \/ Mount \/ LoadedWhole \/ Unmount \/ TokenRejected \/ Login \/ Logout
  \/ SocketConnect \/ SocketDrop \/ JoinedWithTime

SpecSession == Init /\ [][NextSession]_vars

\* The quiz page reached through the router or rendered with a token.
NextRoute ==
  \/ LoadUserOk
  \/ RouteToQuiz \/ Mount \/ LoadedWhole \/ LoadFail \/ Unmount
  \/ TokenRejected \/ Login \/ Logout
  \/ SocketConnect \/ SocketDrop \/ JoinedWithTime

SpecRoute == Init /\ [][NextRoute]_vars

(***************************************************************************)
(* Properties.                                                             *)
(***************************************************************************)
\* The band a remaining time belongs to: above 60 Normal, 31..60 Warning,
\* 0..30 Critical.
Classify(v) ==
  IF v > 60 THEN "Normal" ELSE IF v >= 31 THEN "Warning" ELSE "Critical"

ServerTimeEvents == {"time_sync", "quiz_joined"}

\* C1: handling time_sync{t} leaves quizState.timeRemaining = t whatever it
\* was before, and no step other than a time_sync or a quiz_joined changes
\* quizState.timeRemaining while the page stays mounted (a countdown tick in
\* particular does not).
C1_LastTimeSyncDetermines ==
  [][/\ \A t \in TimeValues :
          TimeSyncOf(t) /\ page' # "unmounted" => quizState'.timeRemaining = t
     /\ (page # "unmounted" /\ page' # "unmounted"
           /\ lastEvent' \notin ServerTimeEvents)
          => quizState'.timeRemaining = quizState.timeRemaining]_vars

\* C1 witness: a time_sync was handled after a tick had moved the countdown
\* into the Warning band.
C1_Witness ==
  /\ lastEvent = "time_sync"
  /\ page = "ready"
  /\ isWarning
  /\ quizState.timeRemaining = WarningLimit + 2

\* C2: whenever a time_sync{t} is handled while the timer is mounted, the
\* timer's timeRemaining equals t afterwards.
C2_TimerFollowsEverySync ==
  [][\A t \in TimeValues :
       TimeSyncOf(t) /\ page = "ready" /\ page' = "ready"
         => timeRemaining' = t]_vars

\* C3: onTimeUp is invoked at most once per mounted session.
C3_TimeUpAtMostOnce == timeUpCalls <= 1

\* C4: after a tick the band flags classify the post-decrement value
\* exactly.
C4_TickBandExact ==
  [][lastEvent' = "tick"
       => TimerBand(isWarning', isCritical') = Classify(timeRemaining')]_vars

\* C4 witness: a tick has brought the countdown to 60, shown as Warning.
C4_Witness ==
  /\ lastEvent = "tick"
  /\ timeRemaining = 60
  /\ TimerBand(isWarning, isCritical) = "Warning"

\* C5: the band displayed always classifies the displayed countdown value.
C5_BandNeverStale ==
  page = "ready" => TimerBand(isWarning, isCritical) = Classify(timeRemaining)

\* C6: while the page stays mounted the monitor's blurCount never
\* decreases, across disabling and re-enabling the monitor included.
C6_CountSurvivesToggle ==
  [][page # "unmounted" /\ page' # "unmounted"
       => blurCount' >= blurCount]_vars

OtherGestures ==
  {"focus", "contextmenu", "selectstart", "dragstart", "keydown", "keyup"}

\* C7: with the blur listener attached a blur event adds exactly 1 to
\* blurCount and leaves the page's warningCount alone; no other gesture
\* changes blurCount.
C7_OnlyBlurCounts ==
  [][/\ (lastEvent' = "blur" /\ Attached("blur"))
          => blurCount' = blurCount + 1 /\ warningCount' = warningCount
     /\ lastEvent' \in OtherGestures => blurCount' = blurCount]_vars

\* C7 witness: the third blur in a row of an enabled monitor.
C7_Witness ==
  /\ lastEvent = "blur"
  /\ Attached("blur")
  /\ blurCount = 3
  /\ MaxSwitchesExceeded(Cur)
  /\ warningCount = 0

\* C8: selecting option o for the current question maps its id to o and
\* keeps every other entry; no other step of a mounted page changes the
\* answers.
C8_LastWritePerKeyWins ==
  [][/\ \A o \in Options :
          AnswerSelectOf(o) =>
            LET qid == questions[currentQuestionIndex + 1]
            IN /\ DOMAIN answers' = DOMAIN answers \cup {qid}
               /\ answers'[qid] = o
               /\ \A k \in DOMAIN answers \ {qid} : answers'[k] = answers[k]
     /\ (page # "unmounted" /\ page' # "unmounted"
           /\ lastEvent' # "answer_select")
          => answers' = answers]_vars

\* C8 witness: both questions answered, the last selection being recorded.
C8_Witness ==
  /\ lastEvent = "answer_select"
  /\ DOMAIN answers = {1, 2}
  /\ answers[1] = "a"
  /\ answers[2] = "b"

\* No interval is set, no listener, style or quiz handler is attached and
\* the socket is not open.
Released ==
  /\ ~countdown
  /\ ~timerSync
  /\ ~syncInterval
  /\ \A e \in DOMAIN listeners : listeners[e] = 0
  /\ ~styleEl
  /\ handlers = 0
  /\ socket \in {"none", "closed"}

\* C9: an unmounted page holds no resource.
C9_UnmountReleasesAll == page = "unmounted" => Released

\* C9 witness: a page that had opened a socket was unmounted by navigating
\* away.
C9_Witness ==
  /\ page = "unmounted"
  /\ lastEvent = "unmount"
  /\ socket = "closed"

\* C10: the step that takes the session to Left (quiz_completed from the
\* server, or the local finish) releases every resource.
C10_LeftReleasesAll ==
  lastEvent \in {"quiz_completed", "finish_click"} => Released

HasFinish(packets) == \E k \in DOMAIN packets : packets[k].type = "finish_quiz"

\* C11: a securityViolation signal makes the page finish the quiz (call
\* finishQuiz and navigate away, emitting finish_quiz when connected)
\* exactly when it is the one that takes warningCount from 2 to 3; a signal
\* that finds the counter below 2 only adds 1 to it.
C11_FinishOnThirdViolation ==
  [][lastEvent' = "security_violation"
       => /\ (page' = "unmounted") <=> (warningCount = 2)
          /\ HasFinish(emitted') <=> (warningCount = 2 /\ isConnected)
          /\ warningCount < 2
               => warningCount' = warningCount + 1 /\ emitted' = <<>>]_vars

\* C11 witness: the third signal of a connected session has emitted
\* finish_quiz and left the page.
C11_Witness ==
  /\ lastEvent = "security_violation"
  /\ page = "unmounted"
  /\ HasFinish(emitted)

\* The countdown of a mounted timer comes to 0 in this step.
ReachesZero == page = "ready" /\ timeRemaining > 0 /\ timeRemaining' = 0

\* C12 as stated: whenever the countdown of a joined session reaches 0, a
\* finish_quiz is emitted (the page leaves in that step, so there is no
\* later emission for the session).
C12_ExpiryEmitsFinish ==
  [][ReachesZero /\ quizState.isJoined => HasFinish(emitted')]_vars

\* C12 amended: whenever the countdown reaches 0 the expiry callback runs
\* and the page finishes and leaves; finish_quiz is emitted in that step
\* exactly when the channel is connected at that moment.
C12_ExpiryFinishesEmitsIfConnected ==
  [][ReachesZero
       => /\ timeUpCalls' > timeUpCalls
          /\ page' = "unmounted"
          /\ HasFinish(emitted') <=> isConnected]_vars

\* C12 witness: a tick has brought a connected session's countdown to 0
\* and finish_quiz was emitted.
C12_Witness ==
  /\ lastEvent = "tick"
  /\ timeRemaining = 0
  /\ timeUpCalls > 0
  /\ page = "unmounted"
  /\ HasFinish(emitted)

ErrorEvents == {"connect_error", "error", "disconnect", "load_fail"}

\* C13: a connect_error, an error event, a disconnect or a failed content
\* load does not finish the quiz (no expiry callback, no finish_quiz, no
\* navigation away), leaves the quiz state, the answers, the visible
\* question and the countdown as they were, keeps the countdown running,
\* and a protocol error leaves the quiz handlers registered; at the next
\* connect of a page with a session token they are registered again.
C13_ErrorsNeverFinish ==
  [][/\ lastEvent' \in ErrorEvents
          => /\ timeUpCalls' = timeUpCalls
             /\ ~HasFinish(emitted')
             /\ page' = IF lastEvent' = "load_fail" THEN "error" ELSE page
             /\ quizState' = quizState
             /\ answers' = answers
             /\ currentQuestionIndex' = currentQuestionIndex
             /\ timeRemaining' = timeRemaining
             /\ countdown' = countdown
             /\ lastEvent' = "error" => handlers' = handlers
     /\ (lastEvent' = "connect" /\ sessionToken # Undefined)
          => handlers' = 1]_vars

\* C13 witness: a protocol error reached a joined, loaded session whose
\* countdown keeps running.
C13_Witness ==
  /\ lastEvent = "error"
  /\ error # NoError
  /\ page = "ready"
  /\ quizState.isJoined
  /\ countdown
  /\ handlers = 1
  /\ DOMAIN answers # {}

\* C14: in every state in which a loaded page's session is joined, calling
\* finishQuiz() gives a state in which quizState.isJoined is false.
C14_FinishMarksLeft ==
  (page = "ready" /\ quizState.isJoined)
    => ~FinishQuiz(Cur).quizState.isJoined

\* C15: a step that handles quiz_joined{t, i, n} leaves quizState equal to
\* {timeRemaining: t, currentQuestionIndex: i, totalQuestions: n,
\* isJoined: true} whatever it was before: nothing of the previous state
\* survives, after a reconnect or a quiz_completed included.
C15_QuizJoinedReplaces ==
  [][(lastEvent' = "quiz_joined" /\ page' # "unmounted")
       => \A t \in TimeValues, i \in 0..(MaxQuestions - 1),
             n \in 0..MaxQuestions :
            quizState' = HandleQuizJoined(quizState, t, i, n)
              => quizState' = [timeRemaining |-> t,
                               currentQuestionIndex |-> i,
                               totalQuestions |-> n, isJoined |-> TRUE]]_vars

\* C15 witness: a quiz_joined was handled by a session that had been
\* joined before (its countdown had already ticked into the Warning band)
\* and replaced time, index and total.
C15_Witness ==
  /\ lastEvent = "quiz_joined"
  /\ page = "ready"
  /\ isWarning
  /\ quizState = [timeRemaining |-> WarningLimit + 2,
                  currentQuestionIndex |-> 1, totalQuestions |-> 1,
                  isJoined |-> TRUE]

\* C16: while the session is joined, 0 <= currentQuestionIndex <
\* totalQuestions.
C16_IndexWithinTotal ==
  (page # "unmounted" /\ quizState.isJoined)
    => /\ 0 <= quizState.currentQuestionIndex
       /\ quizState.currentQuestionIndex < quizState.totalQuestions

\* C17: quizState.timeRemaining is null when the page mounts, and from a
\* state in which it is null only the handling of quiz_joined makes it
\* non-null: time_sync, question_changed and quiz_completed leave it null.
C17_UnsetUntilJoined ==
  [][/\ (page = "unmounted" /\ page' # "unmounted")
          => quizState'.timeRemaining = Null
     /\ (page # "unmounted" /\ page' # "unmounted"
           /\ quizState.timeRemaining = Null /\ lastEvent' # "quiz_joined")
          => quizState'.timeRemaining = Null]_vars

QuizStateEvents ==
  {"quiz_joined", "time_sync", "question_changed", "quiz_completed"}

\* C20: while the page stays mounted only the handling of quiz_joined,
\* time_sync, question_changed or quiz_completed changes quizState; a
\* disconnect, connect_error, error, answer_submitted, user_joined or
\* user_left leaves every field as it was.
C20_OnlyQuizEventsChangeQuizState ==
  [][(page # "unmounted" /\ page' # "unmounted"
        /\ lastEvent' \notin QuizStateEvents)
       => quizState' = quizState]_vars

\* C20 witness: a joined session lost its connection and still holds the
\* time, index and total it had.
C20_Witness ==
  /\ lastEvent = "disconnect"
  /\ page = "ready"
  /\ ~isConnected
  /\ quizState = [timeRemaining |-> WarningLimit + 2,
                  currentQuestionIndex |-> 1, totalQuestions |-> MaxQuestions,
                  isJoined |-> TRUE]

LiveSockets == {"connecting", "connected", "reconnecting"}

\* C18: while there is no token no socket is connecting or connected,
\* isConnected is false and nothing is emitted; the error reported does not
\* change (it is null for a page mounted without a token), and a call that
\* emits leaves the socket's buffer alone as well.
C18_NoTokenIdle ==
  [][token' = NoToken
       => /\ socket' \notin LiveSockets
          /\ openSockets' = 0
          /\ ~isConnected'
          /\ emitted' = <<>>
          /\ (page' # "unmounted" /\ socket' = "none") => error' = NoError
          /\ (token = NoToken /\ page # "unmounted" /\ page' # "unmounted")
               => error' = error /\ sendBuffer' = sendBuffer]_vars

\* C18 witness: the token was rejected during a loaded session and a later
\* navigation to the next question emitted nothing.
C18_Witness ==
  /\ token = NoToken
  /\ page = "ready"
  /\ lastEvent = "next_click"
  /\ currentQuestionIndex = 1
  /\ socket = "closed"
  /\ emitted = <<>>

\* C19: at most one socket is open at any time, the one socketRef holds,
\* and a socket is opened only when none is open.
C19_AtMostOneConnection ==
  [][/\ openSockets' <= 1
     /\ (openSockets' = 1) <=> (socket' \in LiveSockets)
     /\ openSockets' > openSockets => openSockets = 0]_vars

\* C19 witness: a page mounted with a token has opened its connection,
\* the only one open.
C19_Witness ==
  /\ lastEvent = "mount"
  /\ token # NoToken
  /\ socket = "connecting"
  /\ openSockets = 1

\* The join_quiz packets among the packets given to the socket.
Joins(packets) == {k \in DOMAIN packets : packets[k].type = "join_quiz"}

C30_OneJoinPerConnect ==
  [][/\ (lastEvent' = "connect" /\ sessionToken # Undefined)
          => /\ Cardinality(Joins(emitted')) = 1
             /\ \A k \in Joins(emitted') :
                  emitted'[k].session_token = sessionToken
     /\ Joins(emitted') # {}
          => /\ lastEvent' = "connect"
             /\ sessionToken # Undefined
             /\ socket' = "connected"
     /\ Joins(sendBuffer') = {}]_vars

\* C30 witness: the first connect of a page with a session token has
\* emitted its join_quiz.
C30_Witness ==
  /\ lastEvent = "connect"
  /\ ~quizState.isJoined
  /\ emitted = <<[type |-> "join_quiz", session_token |-> sessionToken]>>

\* C26: while the timer stays mounted the time elapsed towards its next
\* resync request is lost only by the request itself: no time_sync, no
\* other event and no re-render of the page starts the 120 unit period
\* again, and the request changes no state of the timer.
C26_CadenceNeverRestarts ==
  [][/\ (page = "ready" /\ page' = "ready" /\ lastEvent' # "timer_sync")
          => syncElapsed' >= syncElapsed
     /\ lastEvent' = "timer_sync"
          => /\ syncElapsed = SyncPeriod
             /\ timeRemaining' = timeRemaining
             /\ isWarning' = isWarning /\ isCritical' = isCritical
             /\ countdown' = countdown]_vars

OutboundTypes ==
  {"submit_answer", "next_question", "finish_quiz", "request_time_sync"}

Outbound(packets) ==
  {k \in DOMAIN packets : packets[k].type \in OutboundTypes}

\* The events that call submitAnswer, nextQuestion, finishQuiz or
\* requestTimeSync once: the controls, the timer's 120 s callback, and the
\* load that mounts the timer, whose countdown may start at 0 and expire.
CallEvents ==
  {"answer_select", "next_click", "previous_click", "finish_click",
   "timer_sync", "load_ok"}

\* C22: a step that calls submitAnswer, nextQuestion, finishQuiz or
\* requestTimeSync emits at most one of their messages and completes
\* without waiting; when the channel is not connected it emits none.  None
\* of these messages is ever kept in the socket's buffer, and none is
\* emitted in a step that makes no call (a connect emits none).
C22_FireAndForget ==
  [][/\ lastEvent' \in CallEvents
          => /\ Cardinality(Outbound(emitted')) <= 1
             /\ ~isConnected => Outbound(emitted') = {}
     /\ Outbound(sendBuffer') = {}
     /\ Outbound(emitted') # {} => lastEvent' \in CallEvents]_vars

\* C22 witness: Next was clicked while the channel was reconnecting; the
\* index moved and nothing was emitted or buffered.
C22_Witness ==
  /\ lastEvent = "next_click"
  /\ socket = "reconnecting"
  /\ ~isConnected
  /\ currentQuestionIndex = 1
  /\ emitted = <<>>
  /\ sendBuffer = <<>>

\* The controls that change the visible question.
NavigationEvents == {"next_click", "previous_click", "grid_click"}

\* C23: a Next, Previous or grid click that changes the visible question
\* index while the channel is connected emits exactly
\* next_question{question_index} with the new index.
C23_NavigationMirrored ==
  [][(/\ lastEvent' \in NavigationEvents
      /\ page = "ready" /\ page' = "ready"
      /\ isConnected
      /\ currentQuestionIndex' # currentQuestionIndex)
       => emitted' = <<[type |-> "next_question",
                        question_index |-> currentQuestionIndex']>>]_vars

\* The packets are exactly the submit_answer of an entry of the answer
\* record.
SubmitOf(packets, questionId, option) ==
  /\ Len(packets) = 1
  /\ packets[1].type = "submit_answer"
  /\ packets[1].question_id = questionId
  /\ packets[1].selected_answer = option

\* The question on screen.
CurrentQuestionId == questions[currentQuestionIndex + 1]

\* C24 as stated: the selection that writes an entry of the answer record
\* emits the entry's submit_answer.
C24_AnswersMirrored ==
  [][(lastEvent' = "answer_select" /\ page' = "ready")
       => SubmitOf(emitted', CurrentQuestionId,
                   answers'[CurrentQuestionId])]_vars

\* C24 amended: an answer selection writes the option under the id of the
\* question on screen and keeps the other entries; it emits exactly the
\* entry's submit_answer when the channel is connected at that moment, and
\* nothing when it is not; nothing is kept to be sent later.
C24_AnswersMirroredIfConnected ==
  [][(lastEvent' = "answer_select" /\ page' = "ready")
       => /\ CurrentQuestionId \in DOMAIN answers'
          /\ answers'[CurrentQuestionId] \in Options
          /\ \A q \in DOMAIN answers :
               q # CurrentQuestionId
                 => q \in DOMAIN answers' /\ answers'[q] = answers[q]
          /\ isConnected
               => SubmitOf(emitted', CurrentQuestionId,
                           answers'[CurrentQuestionId])
          /\ ~isConnected => emitted' = <<>>
          /\ sendBuffer' = sendBuffer]_vars

\* C24 witness: with an answer already recorded for the first question,
\* an answer to the second was selected on a connected channel and its
\* submit_answer emitted.
C24_Witness ==
  /\ lastEvent = "answer_select"
  /\ isConnected
  /\ currentQuestionIndex = 1
  /\ DOMAIN answers = {questions[1], questions[2]}
  /\ SubmitOf(emitted, questions[2], answers[questions[2]])

\* C25: a window blur, below, at or above the monitor's threshold of 3,
\* only counts and reports: the step emits nothing, buffers nothing, does
\* not run the finish path (no submission, no navigation, the page stays)
\* and leaves the controller's violation counter as it was.
C25_BlurOnlyReports ==
  [][lastEvent' = "blur"
       => /\ emitted' = <<>>
          /\ sendBuffer' = sendBuffer
          /\ warningCount' = warningCount
          /\ page' = page
          /\ navPending' = navPending
          /\ isSubmitting' = isSubmitting
          /\ timeUpCalls' = timeUpCalls]_vars

\* C25 witness: the monitor has counted a blur at or past its threshold on
\* a connected, joined page whose controller stands one violation short of
\* finishing; the quiz goes on.
C25_Witness ==
  /\ lastEvent = "blur"
  /\ MaxSwitchesExceeded(Cur)
  /\ page = "ready"
  /\ isConnected
  /\ quizState.isJoined
  /\ warningCount = 2

\* C27: every tick takes exactly 1 off the countdown, floored at 0, so
\* that n ticks after a seed T with no seed in between it stands at
\* max(0, T - n); the countdown is never negative, and the interval is not
\* running once it is 0, so nothing is decremented there.
C27_TickDecrementsByOne ==
  /\ [][lastEvent' = "tick"
          => /\ page = "ready" /\ timeRemaining > 0
             /\ page' = "ready"
                  => timeRemaining' = Max(0, timeRemaining - 1)
             /\ page' # "ready" => timeRemaining = 1]_vars
  /\ [](timeRemaining >= 0)
  /\ [](countdown => page = "ready" /\ timeRemaining > 0)

\* C27 witness: three ticks after the countdown was seeded with 32 it reads
\* 29.
C27_Witness ==
  /\ lastEvent = "tick"
  /\ page = "ready"
  /\ quizState.timeRemaining = CriticalLimit + 2
  /\ timeRemaining = CriticalLimit - 1

\* Reading a displayed time back: its fields between the colons and the
\* number each field writes.
Colons(text) == {k \in DOMAIN text : text[k] = ":"}

RECURSIVE Split(_)
Split(text) ==
  IF Colons(text) = {} THEN <<text>>
  ELSE LET k == CHOOSE i \in Colons(text) : \A j \in Colons(text) : i <= j
       IN <<SubSeq(text, 1, k - 1)>> \o Split(SubSeq(text, k + 1, Len(text)))

IsNumber(field) ==
  /\ Len(field) >= 1
  /\ \A k \in DOMAIN field : \E d \in 0..9 : DigitChars[d + 1] = field[k]

DigitValue(c) == CHOOSE d \in 0..9 : DigitChars[d + 1] = c

RECURSIVE ParseInt(_)
ParseInt(field) ==
  IF Len(field) = 0 THEN 0
  ELSE 10 * ParseInt(SubSeq(field, 1, Len(field) - 1))
         + DigitValue(field[Len(field)])

\* A number written without padding.
Unpadded(field) == IsNumber(field) /\ (Len(field) > 1 => field[1] # "0")

\* C28: the timer displays s >= 3600 as hours:MM:SS and s < 3600 as
\* minutes:SS, the leading field unpadded, every MM and SS of exactly two
\* digits, with hours = s div 3600, minutes = (s mod 3600) div 60 and
\* seconds = s mod 60; 125 reads 2:05, 300 reads 5:00, 3600 reads 1:00:00.
C28_FormatTime ==
  page = "ready"
    => LET s == timeRemaining
           f == Split(timeText)
       IN /\ \A k \in DOMAIN f : IsNumber(f[k])
          /\ s >= 3600
               => /\ Len(f) = 3
                  /\ Unpadded(f[1]) /\ Len(f[2]) = 2 /\ Len(f[3]) = 2
                  /\ ParseInt(f[1]) = s \div 3600
                  /\ ParseInt(f[2]) = (s % 3600) \div 60
                  /\ ParseInt(f[3]) = s % 60
          /\ s < 3600
               => /\ Len(f) = 2
                  /\ Unpadded(f[1]) /\ Len(f[2]) = 2
                  /\ ParseInt(f[1]) = (s % 3600) \div 60
                  /\ ParseInt(f[2]) = s % 60
          /\ s = 125 => timeText = <<"2", ":", "0", "5">>
          /\ s = 300 => timeText = <<"5", ":", "0", "0">>
          /\ s = 3600 => timeText = <<"1", ":", "0", "0", ":", "0", "0">>

\* C28 witness: one tick after the server's 3661 the timer displays
\* 1:01:00.
C28_Witness ==
  /\ page = "ready"
  /\ lastEvent = "tick"
  /\ timeRemaining = 3660
  /\ timeText = <<"1", ":", "0", "1", ":", "0", "0">>

\* C29: whatever the toggles so far, while the monitor is disabled none of
\* its seven listeners is attached and its style element is absent; while
\* it is enabled on the quiz page exactly one of each is attached.
C29_ToggleIsPure ==
  /\ DOMAIN listeners = DocEvents \cup WinEvents
  /\ ~securityEnabled
       => (\A e \in DOMAIN listeners : listeners[e] = 0) /\ ~styleEl
  /\ (page = "ready" /\ securityEnabled)
       => (\A e \in DOMAIN listeners : listeners[e] = 1) /\ styleEl

\* C29 witness: the monitor was disabled and has been enabled again.
C29_Witness ==
  /\ lastEvent = "toggle_security"
  /\ page = "ready"
  /\ securityEnabled
  /\ \A e \in DOMAIN listeners : listeners[e] = 1

Resyncs(packets) ==
  {k \in DOMAIN packets : packets[k].type = "request_time_sync"}

\* C31: the hook's 30 s interval is set exactly while the page is mounted,
\* the channel is connected and quizState.isJoined is true.  Its callback
\* emits one request_time_sync and changes nothing else; no other step
\* emits one, none is buffered.  The interval is off after a disconnect or
\* a quiz_completed and on again after a quiz_joined on a connected
\* channel.
C31_ResyncOnlyWhileJoined ==
  /\ [](syncInterval
          <=> (page # "unmounted" /\ isConnected /\ quizState.isJoined))
  /\ [][/\ lastEvent' = "socket_sync"
             => /\ isConnected /\ quizState.isJoined
                /\ socket = "connected"
                /\ emitted' = <<[type |-> "request_time_sync"]>>
                /\ quizState' = quizState
                /\ timeRemaining' = timeRemaining
        /\ Resyncs(emitted') # {} => lastEvent' = "socket_sync"
        /\ Resyncs(sendBuffer') = {}
        /\ lastEvent' \in {"disconnect", "quiz_completed"} => ~syncInterval'
        /\ (lastEvent' = "quiz_joined" /\ page' # "unmounted")
             => syncInterval']_vars

\* C31 witness: the interval of a connected, joined session has fired and
\* emitted its request.
C31_Witness ==
  /\ lastEvent = "socket_sync"
  /\ page = "ready"
  /\ syncInterval
  /\ emitted = <<[type |-> "request_time_sync"]>>

\* C32: the start time of the visible question is the clock's reading at
\* mount and at every later change of the visible question index, by
\* Next, Previous, the grid or the content load, and nothing else moves
\* it; the time_taken of every submit_answer is the whole number of time
\* units between that start time and the selection, never negative.
C32_TimeTakenSinceIndexChange ==
  [][/\ lastEvent' = "mount" => questionStartTime' = now'
     /\ (page # "unmounted" /\ page' # "unmounted")
          => questionStartTime' =
               IF currentQuestionIndex' # currentQuestionIndex
               THEN now' ELSE questionStartTime
     /\ \A k \in DOMAIN emitted' :
          emitted'[k].type = "submit_answer"
            => /\ emitted'[k].time_taken \in Nat
               /\ emitted'[k].time_taken * MsPerUnit
                    <= now - questionStartTime
               /\ now - questionStartTime
                    < (emitted'[k].time_taken + 1) * MsPerUnit]_vars

\* C32 witness: the second question was shown 400 ms after the start and
\* answered 1400 ms later; the answer went out with time_taken 1.
C32_Witness ==
  /\ lastEvent = "answer_select"
  /\ currentQuestionIndex = 1
  /\ questionStartTime = 400
  /\ now = 1800
  /\ Len(emitted) = 1
  /\ emitted[1].type = "submit_answer"
  /\ emitted[1].time_taken = 1

\* C33: onTimeUp is not invoked in a step before which no server time had
\* been received (quizState.timeRemaining unset) and which handles none.
C33_NoExpiryBeforeServerTime ==
  [][(quizState.timeRemaining = Null /\ lastEvent' \notin ServerTimeEvents)
       => timeUpCalls' <= timeUpCalls]_vars

Leaves(packets) == {k \in DOMAIN packets : packets[k].type = "leave_quiz"}

\* C34: a step that tears the join effect down emits leave_quiz if and
\* only if quizState.isJoined was true when the step began.
C34_LeaveIffJoined ==
  [][(joinLive /\ ~joinLive')
       => (Leaves(emitted') # {} <=> quizState.isJoined)]_vars

Finishes(packets) == {k \in DOMAIN packets : packets[k].type = "finish_quiz"}

\* C35: no step, and so no session, emits more than one finish_quiz.
C35_AtMostOneFinish == Cardinality(Finishes(emitted)) <= 1

\* The visible index points at one of the loaded questions.
IndexInRange ==
  /\ Len(questions) >= 1
  /\ currentQuestionIndex \in 0..(Len(questions) - 1)

\* C36: on a loaded page whose visible index is within 0..n-1 every Next,
\* Previous and grid click leaves it within 0..n-1; handleNextQuestion at
\* n-1 and handlePreviousQuestion at 0 change nothing and emit nothing.
C36_IndexStaysInRange ==
  /\ [][(page = "ready" /\ page' = "ready" /\ IndexInRange
           /\ lastEvent' \in NavigationEvents)
          => IndexInRange' /\ questions' = questions]_vars
  /\ []((page = "ready" /\ IndexInRange
           /\ currentQuestionIndex = Len(questions) - 1)
          => HandleNextQuestion(Cur) = Cur)
  /\ []((page = "ready" /\ IndexInRange /\ currentQuestionIndex = 0)
          => HandlePreviousQuestion(Cur) = Cur)

\* C36 witness: a grid click has brought the page to the last of its
\* questions, where Next has nowhere to go.
C36_Witness ==
  /\ lastEvent = "grid_click"
  /\ page = "ready"
  /\ Len(questions) = MaxQuestions
  /\ currentQuestionIndex = Len(questions) - 1
  /\ HandleNextQuestion(Cur) = Cur

\* The events that set the page's own index.
PageIndexEvents == NavigationEvents \cup {"load_ok"}

\* C37: while the page is mounted its visible index changes only in a
\* Next, Previous, grid or content-load step; a quiz_joined or
\* question_changed step leaves it as it was, and the steps that set it
\* leave quizState.currentQuestionIndex as it was.
C37_IndicesIndependent ==
  [][(page # "unmounted" /\ page' # "unmounted")
       => /\ currentQuestionIndex' # currentQuestionIndex
               => lastEvent' \in PageIndexEvents
          /\ lastEvent' \in {"quiz_joined", "question_changed"}
               => currentQuestionIndex' = currentQuestionIndex
          /\ lastEvent' \in PageIndexEvents
               => quizState'.currentQuestionIndex
                    = quizState.currentQuestionIndex]_vars

\* C37 witness: question_changed{1} was handled on a loaded page showing
\* its first question; the hook's index is 1 and the page still shows the
\* first.
C37_Witness ==
  /\ lastEvent = "question_changed"
  /\ page = "ready"
  /\ Len(questions) = MaxQuestions
  /\ quizState.currentQuestionIndex = 1
  /\ currentQuestionIndex = 0

\* C39: in every reachable state of the auth provider a non-null user
\* implies a non-null token.
C39_UserImpliesToken == user # NoUser => token # NoToken

\* C38: a step in which the token becomes absent (logout, or /auth/me
\* rejecting it) leaves no socket connecting or connected and isConnected
\* false, and no socket is opened in a step that ends without a token.
C38_TokenLossDisconnects ==
  [][/\ (token # NoToken /\ token' = NoToken)
          => /\ socket' \notin LiveSockets
             /\ openSockets' = 0
             /\ ~isConnected'
             /\ socket \in LiveSockets => socket' = "closed"
     /\ token' = NoToken => openSockets' <= openSockets]_vars

\* C38 witness: a logout has just ended a session whose socket was open;
\* the socket is closed and the page is gone.
C38_Witness ==
  /\ lastEvent = "logout"
  /\ token = NoToken
  /\ user = NoUser
  /\ socket = "closed"
  /\ openSockets = 0
  /\ page = "unmounted"

\* C40: a quiz page reached through the router has a defined session
\* token, and the step that connects its channel emits join_quiz with it.
C40_RoutedPageJoins ==
  [][/\ lastEvent' = "route_quiz" => sessionToken' # Undefined
     /\ (lastEvent = "route_quiz" /\ lastEvent' = "connect")
          => emitted' = <<[type |-> "join_quiz",
                           session_token |-> sessionToken']>>]_vars

====
